---- MODULE Spec2Model ----
(***************************************************************************)
(* Model of the getting_started samples: the ValidationAggregator executor *)
(* and the declared graph of the query generator workflow, the declared    *)
(* graph of the story workflow, and the get_weather tool.                  *)
(*                                                                         *)
(* A Python str is a sequence of one-character strings.                    *)
(***************************************************************************)
EXTENDS Integers, Sequences, FiniteSets, TLC

VARIABLES
    results,      \* aggregate: the results argument of the last invocation
    validations,  \* aggregate: the local list, as the last invocation left it
    sent,         \* aggregate: messages the last invocation sent through its ctx
    raised,       \* aggregate: TRUE iff the last invocation ended by raising
    calls,        \* aggregate: number of invocations so far
    log,          \* history of invocations: <<[results, raised, sent]>>
    weather,      \* get_weather: the last call, its draws and its return value
    status,       \* workflow run: executor id -> "idle" | "running"
    inbox,        \* workflow run: executor id -> messages waiting for it
    buffer,       \* workflow run: fan-in edge group -> responses collected so far
    started,      \* workflow run: executor id -> number of handler invocations begun
    completed,    \* workflow run: executor id -> number of outputs produced
    output,       \* workflow run: executor id -> its last output message
    received      \* workflow run: executor id -> every message handed to its handler

aggVars == <<results, validations, sent, raised, calls, log>>
runVars == <<status, inbox, buffer, started, completed, output, received>>
vars == <<results, validations, sent, raised, calls, log, weather,
          status, inbox, buffer, started, completed, output, received>>

-----------------------------------------------------------------------------
(* Bounds of the model *)

MaxResults == 3   \* longest results list handed to aggregate directly
MaxCalls == 3     \* invocations of aggregate in one behaviour
HistLen == 1      \* longest results list in the behaviours that keep a log
MaxRuns == 2      \* handler invocations of one executor in one workflow run

-----------------------------------------------------------------------------
(* Python str helpers *)

LowerLetters == <<"a", "b", "c", "d", "e", "f", "g", "h", "i", "j", "k", "l", "m",
                  "n", "o", "p", "q", "r", "s", "t", "u", "v", "w", "x", "y", "z">>
UpperLetters == <<"A", "B", "C", "D", "E", "F", "G", "H", "I", "J", "K", "L", "M",
                  "N", "O", "P", "Q", "R", "S", "T", "U", "V", "W", "X", "Y", "Z">>

Range(f) == {f[i] : i \in DOMAIN f}

\* str.upper() and str.lower() of the cased characters
UpperOf == [c \in Range(LowerLetters) |->
               UpperLetters[CHOOSE i \in DOMAIN LowerLetters : LowerLetters[i] = c]]
LowerOf == [c \in Range(UpperLetters) |->
               LowerLetters[CHOOSE i \in DOMAIN UpperLetters : UpperLetters[i] = c]]

IsLower(c) == c \in DOMAIN UpperOf
IsUpper(c) == c \in DOMAIN LowerOf
ToUpper(c) == IF IsLower(c) THEN UpperOf[c] ELSE c
ToLower(c) == IF IsUpper(c) THEN LowerOf[c] ELSE c

\* str.replace(old, new) for one-character old and new
Replace(s, old, new) == [i \in DOMAIN s |-> IF s[i] = old THEN new ELSE s[i]]

\* str.title(): scan left to right; a cased character that follows an uncased
\* one (or starts the string) is upper-cased, every other cased character is
\* lower-cased
RECURSIVE TitleFrom(_, _, _)
TitleFrom(s, i, prevCased) ==
    IF i > Len(s) THEN <<>>
    ELSE IF IsLower(s[i]) \/ IsUpper(s[i])
         THEN <<IF prevCased THEN ToLower(s[i]) ELSE ToUpper(s[i])>>
              \o TitleFrom(s, i + 1, TRUE)
         ELSE <<s[i]>> \o TitleFrom(s, i + 1, FALSE)

TitleNoLower(s) == [i \in DOMAIN s |->
    IF i = 1 \/ ~(IsLower(s[i - 1]) \/ IsUpper(s[i - 1])) THEN ToUpper(s[i]) ELSE s[i]]

Title(s) == TitleFrom(s, 1, FALSE)

\* sep.join(parts): the parts with sep between neighbours
RECURSIVE JoinFrom(_, _, _)
JoinFrom(sep, parts, i) ==
    IF i > Len(parts) THEN <<>>
    ELSE IF i = Len(parts) THEN parts[i]
    ELSE parts[i] \o sep \o JoinFrom(sep, parts, i + 1)

Join(sep, parts) == JoinFrom(sep, parts, 1)

\* s occurs in t as a contiguous substring
Contains(t, s) ==
    \E k \in 0..(Len(t) - Len(s)) : \A i \in 1..Len(s) : t[k + i] = s[i]

Chars(s) == {s[i] : i \in DOMAIN s}

-----------------------------------------------------------------------------
(* ValidationAggregator.aggregate *)

\* An element of results. attrs are the attributes the object really has:
\* reading one it lacks raises AttributeError.
Response(id, txt, conv) ==
    [executor_id |-> id, agent_run_response |-> [text |-> txt],
     full_conversation |-> conv, attrs |-> {"executor_id", "agent_run_response"}]

Extractable(r) == {"executor_id", "agent_run_response"} \subseteq r.attrs

validator_name(r) == Title(Replace(r.executor_id, "_", " "))

\* Variant: the text is taken from the whole conversation the response carries
text_of_conversation(r) == Join(<<>>, r.full_conversation)

text(r) == r.agent_run_response.text

\* f"**{validator_name}**:\n{text}"
Entry(r) == <<"*", "*">> \o validator_name(r) \o <<"*", "*", ":", "\n">> \o text(r)

\* The for loop over results from element i on, acc being validations so far.
RECURSIVE ExtractLoop(_, _, _)
ExtractLoop(R, i, acc) ==
    IF i > Len(R) THEN [raised |-> FALSE, validations |-> acc]
    ELSE IF ~Extractable(R[i]) THEN [raised |-> TRUE, validations |-> acc]
    ELSE ExtractLoop(R, i + 1, Append(acc, Entry(R[i])))

Header == <<"=", "=", "=", " ", "V", "A", "L", "I", "D", "A", "T", "I", "O", "N", " ",
            "S", "U", "M", "M", "A", "R", "Y", " ", "=", "=", "=">>

combined(vals) == Join(<<"\n", "\n">>, vals)

\* f"=== VALIDATION SUMMARY ===\n\n{combined}\n\n"
summary(vals) == Header \o <<"\n", "\n">> \o combined(vals) \o <<"\n", "\n">>

\* The handler body on R: how the call ended, the local list validations as
\* the call left it, and the messages it sent through ctx. validations is
\* bound to a new empty list on entry; nothing is caught, nothing is retried,
\* and ctx.send_message is the last statement.
AggregateRun(R) ==
    LET loop == ExtractLoop(R, 1, <<>>)
    IN  [raised |-> loop.raised, validations |-> loop.validations,
         sent |-> IF loop.raised THEN <<>> ELSE <<summary(loop.validations)>>]

\* Variant: validations outlives the call (an attribute or a mutable default
\* instead of a local), so a call starts from what the last one left.
AggregateRunLeaky(R) ==
    LET loop == ExtractLoop(R, 1, validations)
    IN  [raised |-> loop.raised, validations |-> loop.validations,
         sent |-> IF loop.raised THEN <<>> ELSE <<summary(loop.validations)>>]

\* Variant: the loop is wrapped in try/except and the summary of the
\* elements processed so far is sent anyway.
AggregateRunSwallow(R) ==
    LET loop == ExtractLoop(R, 1, <<>>)
    IN  [raised |-> FALSE, validations |-> loop.validations,
         sent |-> <<summary(loop.validations)>>]

AggregateEffect(R, run) ==
    /\ results' = R
    /\ validations' = run.validations
    /\ sent' = run.sent
    /\ raised' = run.raised
    /\ calls' = calls + 1

aggregate_leaky(R) == AggregateEffect(R, AggregateRunLeaky(R))

aggregate_swallow(R) == AggregateEffect(R, AggregateRunSwallow(R))

\* ValidationAggregator.aggregate(results, ctx) invoked with results = R and
\* a ctx of its own
aggregate(R) == AggregateEffect(R, AggregateRun(R))

-----------------------------------------------------------------------------
(* Direct invocations of the handler *)

\* Executor ids and response texts handed to the handler
IdSnake == <<"a", "_", "b", "C">>
IdMixed == <<"X", "1", "y">>
TextOk == <<"k">>
TextEmpty == <<>>

GoodSnake == Response(IdSnake, TextOk, <<>>)
GoodMixed == Response(IdMixed, TextEmpty, <<>>)
\* objects that lack one of the attributes the handler reads
NoExecutorId == [GoodSnake EXCEPT !.attrs = {"agent_run_response"}]
NoResponse == [GoodMixed EXCEPT !.attrs = {"executor_id"}]

Elements == {GoodSnake, GoodMixed, NoExecutorId, NoResponse}

ListsUpTo(n) == UNION {[1..k -> Elements] : k \in 0..n}

ResultLists == ListsUpTo(MaxResults)
HistLists == ListsUpTo(HistLen)

RunIdle ==
    /\ status = <<>>
    /\ inbox = <<>>
    /\ buffer = <<>>
    /\ started = <<>>
    /\ completed = <<>>
    /\ output = <<>>
    /\ received = <<>>

AggInit ==
    /\ results = <<>>
    /\ validations = <<>>
    /\ sent = <<>>
    /\ raised = FALSE
    /\ calls = 0
    /\ log = <<>>

WeatherIdle == weather = [called |-> FALSE]

Init == AggInit /\ WeatherIdle /\ RunIdle

Invoke(R) ==
    /\ calls < MaxCalls
    /\ aggregate(R)
    /\ UNCHANGED <<log, weather, runVars>>

InvokeLogged(R) ==
    /\ calls < MaxCalls
    /\ aggregate(R)
    /\ log' = Append(log, [results |-> R, raised |-> raised', sent |-> sent'])
    /\ UNCHANGED <<weather, runVars>>

AggNext == \E R \in ResultLists : Invoke(R)

AggSpec == Init /\ [][AggNext]_vars

HistNext == \E R \in HistLists : InvokeLogged(R)

HistSpec == Init /\ [][HistNext]_vars

-----------------------------------------------------------------------------
(* get_weather *)

\* random.randint(a, b): an integer N with a <= N <= b
randint_wide(a, b) == a..(b + 1)

randint(a, b) == a..b

conditions == <<<<"s", "u", "n", "n", "y">>,
                <<"c", "l", "o", "u", "d", "y">>,
                <<"r", "a", "i", "n", "y">>,
                <<"s", "t", "o", "r", "m", "y">>>>

\* list[i] of Python: positions count from 0, a negative i counts from the
\* end, anything else raises IndexError
InRange(list, i) == -Len(list) <= i /\ i < Len(list)
Item(list, i) == IF i >= 0 THEN list[i + 1] ELSE list[Len(list) + i + 1]

Digits == <<"0", "1", "2", "3", "4", "5", "6", "7", "8", "9">>

\* str(n) for an int n >= 0
RECURSIVE Decimal(_)
Decimal(n) ==
    IF n < 10 THEN <<Digits[n + 1]>>
    ELSE Decimal(n \div 10) \o <<Digits[(n % 10) + 1]>>

Locations == {<<>>, <<"O", "s", "l", "o">>, <<"S", "t", ".", " ", "I", "v", "e", "s", "_", "2">>}

\* get_weather(location): the f-string draws the index first, then the high
get_weather(location) ==
    \E index \in randint(0, 3), high \in randint(10, 30) :
        weather' =
            IF InRange(conditions, index)
            THEN [called |-> TRUE, location |-> location, index |-> index,
                  high |-> high, error |-> FALSE,
                  result |-> <<"T", "h", "e", " ", "w", "e", "a", "t", "h", "e", "r", " ", "i", "n", " ">> \o location
                             \o <<" ", "i", "s", " ">> \o Item(conditions, index)
                             \o <<" ", "w", "i", "t", "h", " ", "a", " ", "h", "i", "g", "h", " ", "o", "f", " ">>
                             \o Decimal(high) \o <<"°", "C", ".">>]
            ELSE [called |-> TRUE, location |-> location, index |-> index,
                  high |-> high, error |-> TRUE, result |-> <<>>]

CallWeather(location) ==
    /\ get_weather(location)
    /\ UNCHANGED <<aggVars, runVars>>

WeatherNext == \E location \in Locations : CallWeather(location)

WeatherSpec == Init /\ [][WeatherNext]_vars

-----------------------------------------------------------------------------
(* The declared workflows *)

\* The id an executor reports in its responses, as a Python str
ExecutorId(e) ==
    CASE e = "SchemaParser" -> <<"S", "c", "h", "e", "m", "a", "P", "a", "r", "s", "e", "r">>
      [] e = "QueryGenerator" -> <<"Q", "u", "e", "r", "y", "G", "e", "n", "e", "r", "a", "t", "o", "r">>
      [] e = "SyntaxChecker" -> <<"S", "y", "n", "t", "a", "x", "C", "h", "e", "c", "k", "e", "r">>
      [] e = "SchemaValidator" -> <<"S", "c", "h", "e", "m", "a", "V", "a", "l", "i", "d", "a", "t", "o", "r">>
      [] e = "PerformanceReviewer" -> <<"P", "e", "r", "f", "o", "r", "m", "a", "n", "c", "e", "R", "e", "v", "i", "e", "w", "e", "r">>
      [] e = "validation_aggregator" -> <<"v", "a", "l", "i", "d", "a", "t", "i", "o", "n", "_", "a", "g", "g", "r", "e", "g", "a", "t", "o", "r">>
      [] e = "QueryRefiner" -> <<"Q", "u", "e", "r", "y", "R", "e", "f", "i", "n", "e", "r">>
      [] e = "FinalSQLOutput" -> <<"F", "i", "n", "a", "l", "S", "Q", "L", "O", "u", "t", "p", "u", "t">>
      [] e = "PlotDesigner" -> <<"P", "l", "o", "t", "D", "e", "s", "i", "g", "n", "e", "r">>
      [] e = "CharacterCreator" -> <<"C", "h", "a", "r", "a", "c", "t", "e", "r", "C", "r", "e", "a", "t", "o", "r">>
      [] e = "SceneWriter" -> <<"S", "c", "e", "n", "e", "W", "r", "i", "t", "e", "r">>
      [] e = "StoryPolisher" -> <<"S", "t", "o", "r", "y", "P", "o", "l", "i", "s", "h", "e", "r">>

Edge(a, b) == [kind |-> "edge", sources |-> <<a>>, targets |-> <<b>>]
FanOut(a, bs) == [kind |-> "fan_out", sources |-> <<a>>, targets |-> bs]
FanIn(as, b) == [kind |-> "fan_in", sources |-> as, targets |-> <<b>>]

Validators == <<"SyntaxChecker", "SchemaValidator", "PerformanceReviewer">>

\* Variant: the fan-in lists two of the three validators
QueryGraphPartialFanIn ==
    [start |-> "SchemaParser",
     groups |-> <<Edge("SchemaParser", "QueryGenerator"),
                  FanOut("QueryGenerator", Validators),
                  FanIn(<<"SyntaxChecker", "SchemaValidator">>, "validation_aggregator"),
                  Edge("validation_aggregator", "QueryRefiner"),
                  Edge("QueryRefiner", "FinalSQLOutput")>>]

\* Variant: the refiner is one of the fan-out targets as well
QueryGraphRefinerShortcut ==
    [start |-> "SchemaParser",
     groups |-> <<Edge("SchemaParser", "QueryGenerator"),
                  FanOut("QueryGenerator", Validators \o <<"QueryRefiner">>),
                  FanIn(Validators, "validation_aggregator"),
                  Edge("validation_aggregator", "QueryRefiner"),
                  Edge("QueryRefiner", "FinalSQLOutput")>>]

\* Variant: the refiner also feeds the generator again (a refinement loop)
QueryGraphLoop ==
    [start |-> "SchemaParser",
     groups |-> <<Edge("SchemaParser", "QueryGenerator"),
                  FanOut("QueryGenerator", Validators),
                  FanIn(Validators, "validation_aggregator"),
                  Edge("validation_aggregator", "QueryRefiner"),
                  Edge("QueryRefiner", "FinalSQLOutput"),
                  Edge("QueryRefiner", "QueryGenerator")>>]

\* The graph the WorkflowBuilder calls of the query generator workflow declare
QueryGraph ==
    [start |-> "SchemaParser",
     groups |-> <<Edge("SchemaParser", "QueryGenerator"),
                  FanOut("QueryGenerator", Validators),
                  FanIn(Validators, "validation_aggregator"),
                  Edge("validation_aggregator", "QueryRefiner"),
                  Edge("QueryRefiner", "FinalSQLOutput")>>]

\* Variant: the plot designer fans out to two agents at once
StoryGraphFanOut ==
    [start |-> "PlotDesigner",
     groups |-> <<FanOut("PlotDesigner", <<"CharacterCreator", "SceneWriter">>),
                  Edge("SceneWriter", "StoryPolisher")>>]

\* The graph the WorkflowBuilder calls of the story workflow declare
StoryGraph ==
    [start |-> "PlotDesigner",
     groups |-> <<Edge("PlotDesigner", "CharacterCreator"),
                  Edge("CharacterCreator", "SceneWriter"),
                  Edge("SceneWriter", "StoryPolisher")>>]

ExecutorsOf(G) ==
    {G.start} \cup UNION {Range(G.groups[i].sources) \cup Range(G.groups[i].targets) :
                            i \in DOMAIN G.groups}

\* validation_aggregator is the one custom Executor; every other executor
\* wraps a ChatAgent
IsAggregator(e) == e = "validation_aggregator"

\* What the chat model may answer for an agent: any text; these are the
\* texts of the model. Digits stand for the content of the request, the
\* schema analysis and the generated query.
UserInputs == {<<"1">>, <<"2">>}

AgentTexts(e) ==
    CASE e = "SchemaParser" -> {<<"5">>, <<"6">>}
      [] e = "QueryGenerator" -> {<<"7">>, <<"8">>}
      [] e = "SyntaxChecker" -> {<<"o", "k">>, <<"7">>}
      [] e = "SchemaValidator" -> {<<"o", "k">>, <<"n", "o">>}
      [] e = "PerformanceReviewer" -> {<<"o", "k">>, <<>>}
      [] e = "QueryRefiner" -> {<<"9">>}
      [] e = "FinalSQLOutput" -> {<<"9">>}
      [] e = "PlotDesigner" -> {<<"p">>, <<"q">>, <<"r">>}
      [] OTHER -> {<<"a">>, <<"b">>}

-----------------------------------------------------------------------------
(* The runtime that executes a declared graph *)

StrMessage(s) == [kind |-> "str", body |-> s]
ResponseMessage(r) == [kind |-> "response", body |-> r]
ListMessage(rs) == [kind |-> "list", body |-> rs]

\* The conversation an agent executor works from: a str starts a new one, a
\* response of an earlier agent carries the conversation so far
Conversation(m) ==
    IF m.kind = "str" THEN <<m.body>>
    ELSE IF m.kind = "response" THEN m.body.full_conversation
    ELSE <<>>

Last(q) == q[Len(q)]

\* Routing of the output `out` of executor e through the edge groups of G.
\* A plain or fan-out group hands the message to every target. A fan-in
\* group keeps it until every source has delivered, then hands the collected
\* responses, as one list, to its target.
Feeds(g, e) == e \in Range(g.sources)

Buffered(G, e, out, i) == Append(buffer[i], [source |-> e, body |-> out.body])

Ready(G, e, out, i) ==
    \A src \in Range(G.groups[i].sources) :
        \E k \in DOMAIN Buffered(G, e, out, i) : Buffered(G, e, out, i)[k].source = src

\* what group i hands to executor t when e emits out: nothing or one message
Handed(G, e, out, i, t) ==
    LET g == G.groups[i]
    IN  IF ~Feeds(g, e) \/ t \notin Range(g.targets) THEN <<>>
        ELSE IF g.kind \in {"edge", "fan_out"} THEN <<out>>
        ELSE IF Ready(G, e, out, i)
        THEN <<ListMessage([k \in DOMAIN Buffered(G, e, out, i) |->
                               Buffered(G, e, out, i)[k].body])>>
        ELSE <<>>

RECURSIVE HandedFrom(_, _, _, _, _)
HandedFrom(G, e, out, i, t) ==
    IF i > Len(G.groups) THEN <<>>
    ELSE Handed(G, e, out, i, t) \o HandedFrom(G, e, out, i + 1, t)

RouteInbox(G, e, out) ==
    [t \in DOMAIN inbox |-> inbox[t] \o HandedFrom(G, e, out, 1, t)]

RouteBuffer(G, e, out) ==
    [i \in DOMAIN buffer |->
        IF Feeds(G.groups[i], e) /\ G.groups[i].kind = "fan_in"
        THEN IF Ready(G, e, out, i) THEN <<>> ELSE Buffered(G, e, out, i)
        ELSE buffer[i]]

RunInit(G) ==
    \E u \in UserInputs :
        /\ status = [e \in ExecutorsOf(G) |-> "idle"]
        /\ inbox = [e \in ExecutorsOf(G) |->
                       IF e = G.start THEN <<StrMessage(u)>> ELSE <<>>]
        /\ buffer = [i \in DOMAIN G.groups |-> <<>>]
        /\ started = [e \in ExecutorsOf(G) |-> 0]
        /\ completed = [e \in ExecutorsOf(G) |-> 0]
        /\ output = [e \in ExecutorsOf(G) |-> StrMessage(<<>>)]
        /\ received = [e \in ExecutorsOf(G) |-> <<>>]

\* The runtime hands executor e the next message waiting for it
StartHandler(G, e) ==
    /\ status[e] = "idle"
    /\ inbox[e] # <<>>
    /\ started[e] < MaxRuns
    /\ status' = [status EXCEPT ![e] = "running"]
    /\ received' = [received EXCEPT ![e] = Append(@, Head(inbox[e]))]
    /\ inbox' = [inbox EXCEPT ![e] = Tail(@)]
    /\ started' = [started EXCEPT ![e] = @ + 1]
    /\ UNCHANGED <<buffer, completed, output, aggVars, weather>>

Emit(G, e, out) ==
    /\ inbox' = RouteInbox(G, e, out)
    /\ buffer' = RouteBuffer(G, e, out)
    /\ output' = [output EXCEPT ![e] = out]
    /\ completed' = [completed EXCEPT ![e] = @ + 1]
    /\ status' = [status EXCEPT ![e] = "idle"]

\* An agent executor answers: the chat model's text, under the executor's id,
\* with the conversation extended by that text
FinishAgent(G, e) ==
    /\ ~IsAggregator(e)
    /\ status[e] = "running"
    /\ \E t \in AgentTexts(e) :
           Emit(G, e, ResponseMessage(
               Response(ExecutorId(e), t, Append(Conversation(Last(received[e])), t))))
    /\ UNCHANGED <<started, received, aggVars, weather>>

\* The aggregator's handler runs on the list it was handed; what it sent
\* through ctx travels on. A handler that raises ends the executor.
FinishAggregator(G, e) ==
    /\ IsAggregator(e)
    /\ status[e] = "running"
    /\ \E run \in {AggregateRun(Last(received[e]).body)} :
           IF run.raised
           THEN /\ status' = [status EXCEPT ![e] = "failed"]
                /\ UNCHANGED <<inbox, buffer, output, completed>>
           ELSE Emit(G, e, StrMessage(run.sent[1]))
    /\ UNCHANGED <<started, received, aggVars, weather>>

Quiescent == \A e \in DOMAIN status : status[e] = "idle" /\ inbox[e] = <<>>

QueryInit == AggInit /\ WeatherIdle /\ RunInit(QueryGraph)

QueryNext ==
    \E e \in ExecutorsOf(QueryGraph) :
        \/ StartHandler(QueryGraph, e)
        \/ FinishAgent(QueryGraph, e)
        \/ FinishAggregator(QueryGraph, e)

QuerySpec == QueryInit /\ [][QueryNext]_vars

\* Every agent and the aggregator answer each input they are handed and the
\* runtime hands over every waiting message: a run does not stop while a
\* step of it is possible
QueryFairSpec == QuerySpec /\ WF_vars(QueryNext)

StoryInit == AggInit /\ WeatherIdle /\ RunInit(StoryGraph)

StoryNext ==
    \E e \in ExecutorsOf(StoryGraph) :
        \/ StartHandler(StoryGraph, e)
        \/ FinishAgent(StoryGraph, e)

StorySpec == StoryInit /\ [][StoryNext]_vars

-----------------------------------------------------------------------------
(* Properties of aggregate *)

IsCased(c) == IsLower(c) \/ IsUpper(c)

\* The name of an entry, position by position: an underscore becomes a space,
\* a letter that starts the id or follows a non-letter is upper case, any
\* other letter is lower case, everything else is kept.
ExpectedName(id) ==
    [i \in DOMAIN id |->
        IF id[i] = "_" THEN " "
        ELSE IF i = 1 \/ ~IsCased(id[i - 1]) THEN ToUpper(id[i])
        ELSE ToLower(id[i])]

ExpectedEntry(r) ==
    <<"*", "*">> \o ExpectedName(r.executor_id) \o <<"*", "*", ":", "\n">>
        \o r.agent_run_response.text

\* The entries of R[1..n] with a blank line between neighbours
RECURSIVE ExpectedBody(_, _)
ExpectedBody(R, n) ==
    IF n = 0 THEN <<>>
    ELSE IF n = 1 THEN ExpectedEntry(R[1])
    ELSE ExpectedBody(R, n - 1) \o <<"\n", "\n">> \o ExpectedEntry(R[n])

ExpectedSummary(R) ==
    Header \o <<"\n", "\n">> \o ExpectedBody(R, Len(R)) \o <<"\n", "\n">>

\* C4: an invocation of aggregate that returns sends the header, then one
\* entry "**<name>**:\n<text>" per element of results, in the order of
\* results and separated by blank lines, then "\n\n"; name is the executor id
\* with underscores replaced by spaces, title-cased. For an empty results
\* list the message is the header followed by "\n\n".
C4_SummaryFormat ==
    (calls > 0 /\ ~raised) =>
        /\ sent = <<ExpectedSummary(results)>>
        /\ Len(validations) = Len(results)
        /\ \A i \in DOMAIN results : validations[i] = ExpectedEntry(results[i])

C4_Witness ==
    /\ calls > 0 /\ ~raised
    /\ Len(results) = 3
    /\ results[1] = GoodMixed /\ results[2] = GoodSnake /\ results[3] = GoodMixed

FirstFailure(R) ==
    IF \E i \in DOMAIN R : ~Extractable(R[i])
    THEN CHOOSE i \in DOMAIN R :
            ~Extractable(R[i]) /\ \A j \in 1..(i - 1) : Extractable(R[j])
    ELSE 0

\* C6: when reading the executor id or the response text of an element of
\* results fails, the invocation ends by raising, the loop stops at that
\* element (the elements before it were processed once, none after it), and
\* nothing is sent: no partial summary reaches the next executor.
C6_FailurePropagates ==
    (calls > 0 /\ FirstFailure(results) > 0) =>
        /\ raised
        /\ sent = <<>>
        /\ Len(validations) = FirstFailure(results) - 1
        /\ \A i \in DOMAIN validations : validations[i] = ExpectedEntry(results[i])

C6_Witness ==
    /\ raised
    /\ Len(results) = 3
    /\ FirstFailure(results) = 2
    /\ Len(validations) = 1
    /\ sent = <<>>

\* C5 as stated: every invocation sends exactly one message, and invocations
\* with equal results lists send equal messages.
C5_EveryInvocationSendsOne ==
    \A k \in DOMAIN log :
        /\ Len(log[k].sent) = 1
        /\ \A j \in DOMAIN log :
               log[j].results = log[k].results => log[j].sent = log[k].sent

\* C5 (amended): an invocation that returns sends exactly one message and one
\* that raises sends none; whether it raises and what it sends depend only
\* on its results list, so invocations with equal results lists end alike,
\* whatever was invoked before them.
C5_Stateless ==
    \A k \in DOMAIN log :
        /\ Len(log[k].sent) = (IF log[k].raised THEN 0 ELSE 1)
        /\ \A j \in DOMAIN log :
               log[j].results = log[k].results =>
                   /\ log[j].sent = log[k].sent
                   /\ log[j].raised = log[k].raised

C5_Witness ==
    /\ Len(log) = 3
    /\ log[1].results = log[3].results
    /\ log[2].results # log[1].results
    /\ ~log[2].raised /\ Len(log[2].results) = 1
    /\ ~log[3].raised /\ Len(log[3].sent) = 1

\* C9: get_weather never fails with an index out of range; it returns
\* "The weather in <location> is <c> with a high of <t>" followed by the
\* degree sign, "C" and ".", with the location unchanged, c one of the four
\* conditions and t an integer from 10 to 30 written in decimal.
C9_WeatherResult ==
    weather.called =>
        /\ ~weather.error
        /\ weather.index \in 0..3
        /\ \E c \in {<<"s", "u", "n", "n", "y">>, <<"c", "l", "o", "u", "d", "y">>,
                     <<"r", "a", "i", "n", "y">>, <<"s", "t", "o", "r", "m", "y">>},
              t \in 10..30 :
              /\ t = weather.high
              /\ weather.result =
                    <<"T", "h", "e", " ", "w", "e", "a", "t", "h", "e", "r", " ", "i", "n", " ">>
                    \o weather.location \o <<" ", "i", "s", " ">> \o c
                    \o <<" ", "w", "i", "t", "h", " ", "a", " ", "h", "i", "g", "h", " ", "o", "f", " ">>
                    \o <<Digits[(t \div 10) + 1], Digits[(t % 10) + 1]>>
                    \o <<"°", "C", ".">>

\* the last condition of the list and the highest temperature are returned
C9_Witness ==
    /\ weather.called
    /\ ~weather.error
    /\ weather.index = 3
    /\ weather.high = 30
    /\ Len(weather.location) > 0
    /\ Contains(weather.result, <<"s", "t", "o", "r", "m", "y">>)
    /\ Contains(weather.result, <<"3", "0", "°", "C", ".">>)

-----------------------------------------------------------------------------
(* Properties of the workflow runs *)

Began(e) == started[e] > 0
Produced(e) == completed[e] > 0

\* C1: the executors of the query generator workflow respect the declared
\* step order: nothing begins before SchemaParser; QueryGenerator begins only
\* after SchemaParser produced its output; each validator only after
\* QueryGenerator produced its output; ValidationAggregator only after the
\* three validators; QueryRefiner only after ValidationAggregator sent its
\* summary; FinalSQLOutput only after QueryRefiner produced its output.
C1_StepOrder ==
    /\ \A e \in DOMAIN started : Began(e) => Began("SchemaParser")
    /\ Began("QueryGenerator") => Produced("SchemaParser")
    /\ \A v \in Range(Validators) : Began(v) => Produced("QueryGenerator")
    /\ Began("validation_aggregator") => \A v \in Range(Validators) : Produced(v)
    /\ Began("QueryRefiner") => Produced("validation_aggregator")
    /\ Began("FinalSQLOutput") => Produced("QueryRefiner")

C1_Witness ==
    /\ "FinalSQLOutput" \in DOMAIN started
    /\ Produced("FinalSQLOutput")

\* C2: whatever the interleaving of the three validators, aggregate is
\* invoked at most once while the run goes on and exactly once when it has
\* ended, only after the three validators completed, and the list it is
\* handed holds exactly three responses, one of each validator.
C2_FanInBarrier ==
    "validation_aggregator" \in DOMAIN started =>
        /\ started["validation_aggregator"] <= 1
        /\ Quiescent => started["validation_aggregator"] = 1
        /\ \A k \in DOMAIN received["validation_aggregator"] :
               LET m == received["validation_aggregator"][k]
               IN  /\ m.kind = "list"
                   /\ Len(m.body) = 3
                   /\ \A v \in Range(Validators) :
                          /\ Produced(v)
                          /\ Cardinality({i \in DOMAIN m.body :
                                 m.body[i].executor_id = ExecutorId(v)}) = 1

\* the aggregator ran on a list whose order is not the declared one: the
\* last validator of the declaration answered first
C2_Witness ==
    /\ "validation_aggregator" \in DOMAIN started
    /\ Produced("validation_aggregator")
    /\ Len(received["validation_aggregator"]) = 1
    /\ received["validation_aggregator"][1].body[1].executor_id
           = ExecutorId("PerformanceReviewer")

StoryOrder == <<"PlotDesigner", "CharacterCreator", "SceneWriter", "StoryPolisher">>

\* C3: the four agents of the story workflow execute strictly one after the
\* other in the order PlotDesigner, CharacterCreator, SceneWriter,
\* StoryPolisher: none executes twice and, when the run has ended, each has
\* executed once; each but the first begins only after its predecessor
\* produced its output; no two execute at the same time.
C3_StorySequential ==
    "StoryPolisher" \in DOMAIN started =>
        /\ DOMAIN started = Range(StoryOrder)
        /\ \A e \in DOMAIN started : started[e] <= 1 /\ completed[e] <= started[e]
        /\ Quiescent => \A e \in DOMAIN started : started[e] = 1 /\ completed[e] = 1
        /\ \A i \in 2..Len(StoryOrder) : Began(StoryOrder[i]) => Produced(StoryOrder[i - 1])
        /\ Cardinality({e \in DOMAIN status : status[e] = "running"}) <= 1

C3_Witness ==
    /\ "StoryPolisher" \in DOMAIN started
    /\ Quiescent
    /\ Produced("StoryPolisher")

QueryExecutors ==
    {"SchemaParser", "QueryGenerator", "SyntaxChecker", "SchemaValidator",
     "PerformanceReviewer", "validation_aggregator", "QueryRefiner", "FinalSQLOutput"}

\* C7: when every agent and the aggregator answer each input they are
\* handed, FinalSQLOutput eventually produces an output; no executor ever
\* executes twice, and once FinalSQLOutput has produced its output each of
\* the eight executors has executed exactly once.
C7_Terminates ==
    /\ <>(Produced("FinalSQLOutput"))
    /\ [](\A e \in DOMAIN started : started[e] <= 1 /\ completed[e] <= 1)
    /\ [](Produced("FinalSQLOutput") =>
              /\ DOMAIN started = QueryExecutors
              /\ \A e \in QueryExecutors : started[e] = 1 /\ completed[e] = 1)

C7_Witness ==
    /\ "FinalSQLOutput" \in DOMAIN started
    /\ Quiescent
    /\ \A e \in QueryExecutors : started[e] = 1 /\ completed[e] = 1

\* The characters of the texts that came before the validators: the user's
\* request, the schema analysis and the generated query.
UpstreamChars ==
    UNION {Chars(Last(received["SchemaParser"]).body),
           Chars(output["SchemaParser"].body.agent_run_response.text),
           Chars(output["QueryGenerator"].body.agent_run_response.text)}

\* C8: the message QueryRefiner is handed is the aggregator's summary of the
\* validators' executor ids and response texts: it is a str, it is the
\* summary of the list the aggregator was handed, it contains the response
\* text of every validator, and a character of the request, the schema
\* analysis or the generated query occurs in it only if it occurs in the
\* response text of a validator.
C8_RefinerInput ==
    "QueryRefiner" \in DOMAIN received =>
        \A k \in DOMAIN received["QueryRefiner"] :
            LET m == received["QueryRefiner"][k]
                handed == Last(received["validation_aggregator"]).body
            IN  /\ m.kind = "str"
                /\ m.body = ExpectedSummary(handed)
                /\ \A v \in Range(Validators) :
                       Contains(m.body, output[v].body.agent_run_response.text)
                /\ \A c \in UpstreamChars :
                       c \in Chars(m.body) =>
                           \E v \in Range(Validators) :
                               c \in Chars(output[v].body.agent_run_response.text)

\* the refiner was handed a summary in which a validator repeats the query
C8_Witness ==
    /\ "QueryRefiner" \in DOMAIN received
    /\ Len(received["QueryRefiner"]) = 1
    /\ output["QueryGenerator"].body.agent_run_response.text = <<"7">>
    /\ "7" \in Chars(received["QueryRefiner"][1].body)
    /\ "5" \in UpstreamChars
    /\ "5" \notin Chars(received["QueryRefiner"][1].body)

====
